---- MODULE Spec2Model ----
(***************************************************************************)
(* A model of docs/adx4: the IR data model (core.py), the builder, the     *)
(* generic replay apply_jaxpr, the frontend lowering emitter, the ambient  *)
(* current-emitter context (embedding.py) and the primitives (ops.py).     *)
(*                                                                         *)
(* Python objects with identity are modelled by integer handles: a Var is  *)
(* its allocation number, a BuilderEmitter is the index of the equation    *)
(* list its constructor created (heap.lists), and a Jaxpr refers to its    *)
(* equation list by that index, because build() passes the list object on  *)
(* without copying it.                                                     *)
(***************************************************************************)
EXTENDS Integers, Sequences, FiniteSets, TLC

VARIABLES heap, cur, stack, exc, ret, nfle, run

vars == <<heap, cur, stack, exc, ret, nfle, run>>

(***************************************************************************)
(* Bounds of the model.                                                    *)
(***************************************************************************)
MaxAlloc    == 4   \* objects (builders, Variables, emitters) the host machine allocates
MaxBody     == 2   \* statements of a host function
MaxBranch   == 1   \* statements of a branch function given to cond

(***************************************************************************)
(* Types (core.py JaxType, ops.py ArrayType / TupleType).  All arrays are  *)
(* rank 0, so an ArrayType is its dtype.                                   *)
(***************************************************************************)
ArrayType(dt) == [k |-> "arr", dtype |-> dt, elts |-> <<>>]

TupleType(es) == [k |-> "tup", dtype |-> "", elts |-> es]

none_ty == [k |-> "none", dtype |-> "", elts |-> <<>>]

jax_bool == ArrayType("bool")

jax_int == ArrayType("int32")

jax_float == ArrayType("float32")

JaxprType(args, res) == [arg_types |-> args, result_type |-> res]

(***************************************************************************)
(* Values, variables, tracers and host values share one record shape.      *)
(*   k = "val"     JaxVal (ops.py Array): ty is derived from the dtype of  *)
(*                 the numpy value, val abstracts the number               *)
(*   k = "var"     a Var used as an Atom: id is the allocation identity    *)
(*   k = "btracer" BuilderTracer(var, ty)                                  *)
(*   k = "ltracer" FrontendLoweringTracer(ty, rep), rep = <<the rep>>      *)
(*   k = "py"      a host value that is not a TraceVal; py is type(x)      *)
(***************************************************************************)
Cell(k, ty, val, id, py) ==
  [k |-> k, ty |-> ty, val |-> val, id |-> id, py |-> py, rep |-> <<>>, elts |-> <<>>]

NoCell == Cell("none", none_ty, 0, 0, "")

Array(dt, v) == Cell("val", ArrayType(dt), v, 0, "")

PyVal(pyty, v) == Cell("py", none_ty, v, 0, pyty)

PyTuple(es) == [Cell("py", none_ty, 0, 0, "tuple") EXCEPT !.elts = es]

\* A Var is its allocation: core.py Var.__eq__ is `is`, __hash__ is id().
Var(n, ty) == [id |-> n, ty |-> ty]

\* Variables that are equal when their types are (used to test the properties)
new_var_structural(n, ty) == Var(1, ty)

\* n Variables exist already; the new object is the (n+1)-th allocation.
new_var(n, ty) == Var(n + 1, ty)

VarAtom(v) == Cell("var", v.ty, 0, v.id, "")

BuilderTracer(v, ty) == Cell("btracer", ty, 0, v.id, "")

FrontendLoweringTracer(ty, rep) == [Cell("ltracer", ty, 0, 0, "") EXCEPT !.rep = <<rep>>]

IsTracer(x) == x.k \in {"btracer", "ltracer"}

IsJaxVal(x) == x.k = "val"

IsTraceVal(x) == IsJaxVal(x) \/ IsTracer(x)

(***************************************************************************)
(* Emitters.  eval_emitter is the one EvalEmitter; a builder is named by   *)
(* its list index b; a FrontendLoweringEmitter holds its parent, and id    *)
(* tells the instances made by top_level_emitter() apart.                  *)
(***************************************************************************)
eval_emitter == [k |-> "eval", b |-> 0, id |-> 0, parent |-> <<>>]

BuilderEmitter(b) == [k |-> "builder", b |-> b, id |-> 0, parent |-> <<>>]

FrontendLoweringEmitter(parent, id) == [k |-> "lower", b |-> 0, id |-> id, parent |-> <<parent>>]

top_level_emitter(id) == FrontendLoweringEmitter(eval_emitter, id)

(***************************************************************************)
(* Primitives.                                                             *)
(***************************************************************************)
Prim(name, i) == [name |-> name, i |-> i]

Sin == Prim("sin", 0)

Neg == Prim("neg", 0)

Add == Prim("add", 0)

Sub == Prim("sub", 0)

Mul == Prim("mul", 0)

Gt == Prim("gt", 0)

Cond == Prim("cond", 0)

ProjectTuple(i) == Prim("proj", i)

JaxprEqn(binder, op, args, funargs) ==
  [binder |-> binder, op |-> op, args |-> args, funargs |-> funargs]

Jaxpr(binders, eqns, result) == [binders |-> binders, eqns |-> eqns, result |-> result]

Jaxpr_ty(j) == JaxprType([i \in 1..Len(j.binders) |-> j.binders[i].ty], j.result.ty)

(***************************************************************************)
(* Results of the operations: err is "" or the name of the exception.      *)
(***************************************************************************)
Ok(H, out) == [err |-> "", H |-> H, out |-> out]

Fail(e, H) == [err |-> e, H |-> H, out |-> NoCell]

\* The first failing element of a sequence of results, 0 when none fails.
FirstErr(rs) ==
  IF \E i \in 1..Len(rs) : rs[i].err # ""
  THEN CHOOSE i \in 1..Len(rs) : rs[i].err # "" /\ \A j \in 1..(i-1) : rs[j].err = ""
  ELSE 0

Outs(rs) == [i \in 1..Len(rs) |-> rs[i].out]

Min(a, b) == IF a < b THEN a ELSE b

\* A call that raised makes its caller raise; otherwise the caller goes on
\* with the result.
Bind(r, K(_)) == IF r.err # "" THEN Fail(r.err, r.H) ELSE K(r)

\* The result of a call that does not touch the heap, made in heap H.
In(H, r) == [r EXCEPT !.H = H]

\* A list comprehension of calls that do not touch the heap: the first one
\* that raises ends it.
All(H, rs) ==
  LET e == FirstErr(rs)
  IN IF e # 0 THEN Fail(rs[e].err, H) ELSE Ok(H, Outs(rs))

(***************************************************************************)
(* The heap: lists[b] is the equation list created by the constructor of   *)
(* builder b, args[b] its parameter tracers, nv the number of Variables    *)
(* allocated so far.  The rest is history kept for the properties, which  *)
(* no operation reads: encl[b] is the builder that was current when b was  *)
(* created (0 if none), built the Jaxprs returned by build() with the      *)
(* contents of their equation list at that moment, exec the binders of the *)
(* equations replayed through the EvalEmitter and calls the Jaxprs         *)
(* replayed through it.                                                    *)
(***************************************************************************)
EmptyHeap ==
  [lists |-> <<>>, args |-> <<>>, encl |-> <<>>, nv |-> 0,
   built |-> <<>>, exec |-> <<>>, calls |-> <<>>]

ClearLog(H) == [H EXCEPT !.exec = <<>>, !.calls = <<>>]

\* BuilderEmitter.new_tracer
new_tracer(H, ty) ==
  Ok([H EXCEPT !.nv = @ + 1], BuilderTracer(new_var(H.nv, ty), ty))

\* BuilderEmitter.__init__: one fresh tracer per argument type, a new list.
BuilderEmitter_init(H, arg_types, encl) ==
  LET n  == Len(arg_types)
      as == [i \in 1..n |-> BuilderTracer(new_var(H.nv + i - 1, arg_types[i]), arg_types[i])]
  IN [H EXCEPT !.nv = @ + n,
               !.lists = Append(@, <<>>),
               !.args = Append(@, as),
               !.encl = Append(@, encl)]

\* The builder made by the last BuilderEmitter_init.
NewestBuilder(H) == Len(H.lists)

traceval_to_atom(arg) ==
  IF arg.k = "btracer" THEN Ok(<<>>, VarAtom(Var(arg.id, arg.ty)))
  ELSE IF IsJaxVal(arg) THEN Ok(<<>>, arg)
  ELSE Fail("TypeError", <<>>)

\* A builder whose add_eqn appends to the list of the first builder.
add_eqn_shared(H, b, result_ty, p, args, funargs) ==
  Bind(new_tracer(H, result_ty), LAMBDA result :
    Ok([result.H EXCEPT !.lists[1] =
          Append(@, JaxprEqn(Var(result.out.id, result_ty), p, args, funargs))],
       result.out))

\* BuilderEmitter.add_eqn (and emit_primitive, which only reorders arguments)
add_eqn(H, b, result_ty, p, args, funargs) ==
  Bind(All(H, [i \in 1..Len(args) |-> traceval_to_atom(args[i])]), LAMBDA arg_atoms :
    Bind(new_tracer(H, result_ty), LAMBDA result :
      Ok([result.H EXCEPT !.lists[b] =
            Append(@, JaxprEqn(Var(result.out.id, result_ty), p, arg_atoms.out, funargs))],
         result.out)))

\* BuilderEmitter.build: the Jaxpr holds the builder's own list, not a copy.
build(H, b, result) ==
  Bind(In(H, traceval_to_atom(result)), LAMBDA atom_result :
    LET j == Jaxpr([i \in 1..Len(H.args[b]) |-> Var(H.args[b][i].id, H.args[b][i].ty)],
                   b, atom_result.out)
    IN Ok([H EXCEPT !.built = Append(@, [j |-> j, snap |-> H.lists[b]])], j))

(***************************************************************************)
(* Result-type rules (ops.py result_type), called as                       *)
(* the sub-program types first, then the argument types.                   *)
(***************************************************************************)
Arity(p) == IF p.name \in {"sin", "neg", "proj"} THEN 1
            ELSE IF p.name = "cond" THEN 1 ELSE 2

FunArity(p) == IF p.name = "cond" THEN 2 ELSE 0

result_type(p, fun_tys, arg_tys) ==
  IF Len(fun_tys) # FunArity(p) \/ Len(arg_tys) # Arity(p) THEN Fail("TypeError", <<>>)
  ELSE IF p.name \in {"sin", "neg"} THEN Ok(<<>>, arg_tys[1])
  ELSE IF p.name \in {"add", "sub", "mul"} THEN
    IF arg_tys[1] = arg_tys[2] THEN Ok(<<>>, arg_tys[1]) ELSE Fail("AssertionError", <<>>)
  ELSE IF p.name = "gt" THEN
    IF arg_tys[1] = arg_tys[2] THEN Ok(<<>>, jax_bool) ELSE Fail("AssertionError", <<>>)
  ELSE IF p.name = "proj" THEN
    IF arg_tys[1].k # "tup" THEN Fail("AttributeError", <<>>)
    ELSE IF p.i + 1 \in 1..Len(arg_tys[1].elts) THEN Ok(<<>>, arg_tys[1].elts[p.i + 1])
    ELSE Fail("IndexError", <<>>)
  ELSE \* cond
    IF arg_tys[1] # jax_bool THEN Fail("AssertionError", <<>>)
    ELSE IF fun_tys[1].result_type # fun_tys[2].result_type THEN Fail("AssertionError", <<>>)
    ELSE Ok(<<>>, fun_tys[1].result_type)

(***************************************************************************)
(* The numeric kernels (ops.py impl).  Numbers are abstracted to integers  *)
(* and np.sin to an injective map; the dtype of each result is numpy's,    *)
(* because Array.ty reads it back from the value.                          *)
(***************************************************************************)
IsFloat(dt) == dt \in {"float16", "float32", "float64"}

\* dtype of np.sin(x): floats keep theirs, bool -> float16, int32 -> float64
SinDtype(dt) == IF IsFloat(dt) THEN dt ELSE IF dt = "bool" THEN "float16" ELSE "float64"

\* dtype of x + y, x - y, x * y
Promote(d1, d2) ==
  IF d1 = d2 THEN d1
  ELSE IF d1 = "bool" THEN d2
  ELSE IF d2 = "bool" THEN d1
  ELSE IF "float16" \in {d1, d2} /\ "float32" \in {d1, d2} THEN "float32"
  ELSE "float64"

SinVal(v) == 3 * v + 1

Truthy(v) == v # 0

\* ProjectTuple declares no impl: Op.impl raises whatever it is given
leaf_impl(p, args) ==
  IF p.name = "proj" THEN Fail("NotImplementedError", <<>>)
  ELSE IF Len(args) # Arity(p) THEN Fail("TypeError", <<>>)
  ELSE IF \E i \in 1..Len(args) : ~IsJaxVal(args[i]) THEN Fail("AttributeError", <<>>)
  ELSE LET x  == args[1]
           dx == x.ty.dtype
       IN IF p.name = "sin" THEN Ok(<<>>, Array(SinDtype(dx), SinVal(x.val)))
          ELSE IF p.name = "neg" THEN
            IF dx = "bool" THEN Fail("TypeError", <<>>) ELSE Ok(<<>>, Array(dx, 0 - x.val))
          ELSE LET y  == args[2]
                   dy == y.ty.dtype
                   d  == Promote(dx, dy)
               IN IF p.name = "gt" THEN Ok(<<>>, Array("bool", IF x.val > y.val THEN 1 ELSE 0))
                  ELSE IF p.name = "add" THEN
                    Ok(<<>>, Array(d, IF d = "bool" THEN (IF x.val + y.val > 0 THEN 1 ELSE 0)
                                      ELSE x.val + y.val))
                  ELSE IF p.name = "mul" THEN Ok(<<>>, Array(d, x.val * y.val))
                  ELSE \* sub
                    IF d = "bool" THEN Fail("TypeError", <<>>)
                    ELSE Ok(<<>>, Array(d, x.val - y.val))

(***************************************************************************)
(* Replay and the emitters (core.py).  emit is Emitter.emit_primitive,     *)
(* dispatched on the emitter's class.                                      *)
(***************************************************************************)
RECURSIVE emit(_, _, _, _, _, _)
RECURSIVE apply_eqns(_, _, _, _, _)
RECURSIVE apply_jaxpr(_, _, _, _)
RECURSIVE lower_jaxpr(_, _)
RECURSIVE lower_funargs(_, _, _, _)

\* apply_jaxpr.interpret_atom: a Var is looked up in env, a JaxVal is itself
interpret_atom(env, x) ==
  IF x.k = "var" THEN (IF x.id \in DOMAIN env THEN Ok(<<>>, env[x.id]) ELSE Fail("KeyError", <<>>))
  ELSE IF IsJaxVal(x) THEN Ok(<<>>, x)
  ELSE Fail("Exception", <<>>)

\* env = dict(zip(jaxpr.binders, vals)): zip stops at the shorter sequence
zip_env(binders, vals) ==
  LET n == Min(Len(binders), Len(vals))
  IN [id \in {binders[i].id : i \in 1..n} |->
        vals[CHOOSE i \in 1..n : binders[i].id = id /\ \A j \in (i+1)..n : binders[j].id # id]]

env_bind(env, id, v) ==
  [x \in DOMAIN env \cup {id} |-> IF x = id THEN v ELSE env[x]]

\* Cond.impl with the branches exchanged (used to test the properties).
Cond_impl_swapped(H, then_fun, else_fun, p) ==
  IF ~IsJaxVal(p) THEN Fail("AttributeError", H)
  ELSE IF Truthy(p.val) THEN apply_jaxpr(eval_emitter, H, else_fun, <<>>)
  ELSE apply_jaxpr(eval_emitter, H, then_fun, <<>>)

\* Cond.impl: the predicate's value picks the one sub-program that is replayed
Cond_impl(H, then_fun, else_fun, p) ==
  IF ~IsJaxVal(p) THEN Fail("AttributeError", H)
  ELSE IF Truthy(p.val) THEN apply_jaxpr(eval_emitter, H, then_fun, <<>>)
  ELSE apply_jaxpr(eval_emitter, H, else_fun, <<>>)

\* EvalEmitter.emit_primitive: p.impl(result_ty, funargs..., args...)
EvalEmitter_emit(H, p, result_ty, args, funargs) ==
  IF p.name = "cond" THEN
    IF Len(funargs) # 2 \/ Len(args) # 1 THEN Fail("TypeError", H)
    ELSE Cond_impl(H, funargs[1], funargs[2], args[1])
  ELSE IF Len(funargs) # 0 THEN Fail("TypeError", H)
  ELSE In(H, leaf_impl(p, args))

\* FrontendLoweringEmitter.lower_to_rep
lower_to_rep(x) ==
  IF x.k = "ltracer" THEN Ok(<<>>, x.rep[1])
  ELSE IF IsJaxVal(x) THEN Ok(<<>>, x)
  ELSE Fail("Exception", <<>>)

\* FrontendLoweringEmitter.lift_rep
lift_rep(ty, rep) ==
  IF IsTracer(rep) THEN Ok(<<>>, FrontendLoweringTracer(ty, rep))
  ELSE IF IsJaxVal(rep) THEN Ok(<<>>, rep)
  ELSE Fail("Exception", <<>>)

\* FrontendLoweringEmitter.lower_type: no type declares lower_frontend
lower_type(ty) == ty

\* FrontendLoweringEmitter.emit_primitive (no primitive declares
\* lower_frontend, none is a CallableHof)
FrontendLoweringEmitter_emit(E, H, p, result_ty, args, funargs) ==
  Bind(All(H, [i \in 1..Len(args) |-> lower_to_rep(args[i])]), LAMBDA args_low :
    Bind(lower_funargs(H, funargs, 1, <<>>), LAMBDA funargs_low :
      Bind(emit(E.parent[1], funargs_low.H, p, lower_type(result_ty), args_low.out, funargs_low.out),
           LAMBDA result_rep :
        In(result_rep.H, lift_rep(result_ty, result_rep.out)))))

\* funargs_low = [self.lower_jaxpr(f) for f in funargs]
lower_funargs(H, funargs, i, acc) ==
  IF i > Len(funargs) THEN Ok(H, acc)
  ELSE Bind(lower_jaxpr(H, funargs[i]), LAMBDA r :
         lower_funargs(r.H, funargs, i + 1, Append(acc, r.out)))

\* the arguments f_lowered hands to apply_jaxpr
args_high(H, b, tys) ==
  All(H, [i \in 1..Len(tys) |-> lift_rep(tys[i], H.args[b][i])])

\* FrontendLoweringEmitter.lower_jaxpr: materialize_jaxpr(f_lowered, types)
\* in the heap Hb where the builder b has just been constructed
materialize_lowered(Hb, b, jaxpr_high) ==
  Bind(args_high(Hb, b, Jaxpr_ty(jaxpr_high).arg_types), LAMBDA hi :
    Bind(apply_jaxpr(FrontendLoweringEmitter(BuilderEmitter(b), 0), Hb, jaxpr_high, hi.out),
         LAMBDA result_high :
      Bind(In(result_high.H, lower_to_rep(result_high.out)), LAMBDA rep :
        build(rep.H, b, rep.out))))

lower_jaxpr(H, jaxpr_high) ==
  LET tys == Jaxpr_ty(jaxpr_high).arg_types
  IN materialize_lowered(BuilderEmitter_init(H, [i \in 1..Len(tys) |-> lower_type(tys[i])], 0),
                         Len(H.lists) + 1, jaxpr_high)

emit(E, H, p, result_ty, args, funargs) ==
  IF E.k = "eval" THEN EvalEmitter_emit(H, p, result_ty, args, funargs)
  ELSE IF E.k = "builder" THEN add_eqn(H, E.b, result_ty, p, args, funargs)
  ELSE FrontendLoweringEmitter_emit(E, H, p, result_ty, args, funargs)

\* the history of what the EvalEmitter replays
LogExec(E, H, id) == IF E.k = "eval" THEN [H EXCEPT !.exec = Append(@, id)] ELSE H

LogCall(E, H, jaxpr) == IF E.k = "eval" THEN [H EXCEPT !.calls = Append(@, jaxpr)] ELSE H

\* the loop of apply_jaxpr over H.lists[l][i..]; returns the environment
apply_eqns(E, H, l, i, env) ==
  IF i > Len(H.lists[l]) THEN Ok(H, env)
  ELSE LET eqn == H.lists[l][i]
       IN Bind(All(H, [j \in 1..Len(eqn.args) |-> interpret_atom(env, eqn.args[j])]), LAMBDA args :
            Bind(emit(E, LogExec(E, H, eqn.binder.id), eqn.op, eqn.binder.ty, args.out, eqn.funargs),
                 LAMBDA r :
              apply_eqns(E, r.H, l, i + 1, env_bind(env, eqn.binder.id, r.out))))

apply_jaxpr(E, H, jaxpr, vals) ==
  Bind(apply_eqns(E, LogCall(E, H, jaxpr), jaxpr.eqns, 1, zip_env(jaxpr.binders, vals)), LAMBDA r :
    In(r.H, interpret_atom(r.out, jaxpr.result)))

(***************************************************************************)
(* The embedding layer (embedding.py).                                     *)
(***************************************************************************)
\* canonicalize_pyval with the canonicalizers ops.py registers
canonicalize_pyval(x) ==
  IF IsTraceVal(x) THEN Ok(<<>>, x)
  ELSE IF x.k = "py" /\ x.py = "float" THEN Ok(<<>>, Array("float32", x.val))
  ELSE IF x.k = "py" /\ x.py = "bool" THEN Ok(<<>>, Array("bool", x.val))
  ELSE IF x.k = "py" /\ x.py = "int" THEN Ok(<<>>, Array("int32", x.val))
  ELSE Fail("TypeError", <<>>)

\* emit_primitive that calls the emitter before the result-type rule (used
\* to test the properties)
emit_primitive_emit_first(E, H, p, args, funargs) ==
  Bind(All(H, [i \in 1..Len(args) |-> canonicalize_pyval(args[i])]), LAMBDA cs :
    Bind(emit(E, H, p, none_ty, cs.out, funargs), LAMBDA r :
      Bind(In(r.H, result_type(p, [i \in 1..Len(funargs) |-> Jaxpr_ty(funargs[i])],
                               [i \in 1..Len(cs.out) |-> cs.out[i].ty])), LAMBDA result_ty :
        Ok(r.H, r.out))))

\* emit_primitive(p, args, funargs) with current_emitter.emitter = E
emit_primitive(E, H, p, args, funargs) ==
  Bind(All(H, [i \in 1..Len(args) |-> canonicalize_pyval(args[i])]), LAMBDA cs :
    Bind(In(H, result_type(p, [i \in 1..Len(funargs) |-> Jaxpr_ty(funargs[i])],
                           [i \in 1..Len(cs.out) |-> cs.out[i].ty])), LAMBDA result_ty :
      emit(E, H, p, result_ty.out, cs.out, funargs)))

\* set_current_emitter without try/finally (used to test the properties)
set_current_emitter_exit_nofinally(prev, current, raised) ==
  IF raised THEN current ELSE prev

\* set_current_emitter, leaving the block: the value the finally clause
\* stores in current_emitter.emitter
set_current_emitter_exit(prev, current, raised) == prev

(***************************************************************************)
(* The host machine.  The host program is any program that calls           *)
(* trace_to_jaxpr, cond, the leaf helpers of ops.py and                    *)
(* set_current_emitter(top_level_emitter()), raises and catches            *)
(* exceptions, and keeps every tracer it was ever handed.                  *)
(*                                                                         *)
(* stack holds the activations that are open: "trace" and "with" are       *)
(* blocks of set_current_emitter (prev is its local variable), "cond" is a *)
(* call of ops.cond between its steps.  before and snap are history: the   *)
(* slot and the equation lists at the entry of the block.                  *)
(***************************************************************************)
Frame(kind, prev, b, p, funs) ==
  [kind |-> kind, prev |-> prev, b |-> b, p |-> p, funs |-> funs,
   before |-> cur, snap |-> heap.lists]

\* set_current_emitter, entering the block: the value saved in prev
set_current_emitter_enter(current) == current

Top == stack[Len(stack)]

Pop == SubSeq(stack, 1, Len(stack) - 1)

InHostCode == exc = "" /\ (IF stack = <<>> THEN TRUE ELSE Top.kind # "cond")

\* the builder of the innermost trace_to_jaxpr that is open, 0 if none
EnclosingBuilder ==
  LET open == {i \in 1..Len(stack) : stack[i].kind = "trace"}
  IN IF open = {} THEN 0 ELSE stack[CHOOSE i \in open : \A j \in open : j <= i].b

AllVars(H) ==
  UNION {{Var(H.args[b][i].id, H.args[b][i].ty) : i \in 1..Len(H.args[b])} : b \in 1..Len(H.args)}
  \cup UNION {{H.lists[b][i].binder : i \in 1..Len(H.lists[b])} : b \in 1..Len(H.lists)}

HostConsts == {PyVal("float", 1), PyVal("str", 0)}

\* what the host can pass: constants and every tracer made so far
HostArgs == HostConsts \cup {BuilderTracer(v, v.ty) : v \in AllVars(heap)}

\* the tracer the host was handed last
Latest == {BuilderTracer(v, v.ty) : v \in {w \in AllVars(heap) : w.id = heap.nv}}

\* the helper calls the host makes: sin(a) and add(1.0, True)
HostCalls == {<<Sin, <<a>>>> : a \in HostArgs} \cup {<<Add, <<PyVal("float", 1), PyVal("bool", 1)>>>>}

\* what the host returns from a traced function
ReturnVals == {PyVal("float", 1)} \cup Latest

\* what the host passes to cond as the predicate
CondPreds == {PyVal("bool", 1)} \cup Latest

\* the objects allocated so far: builders, Variables, top-level emitters
Alloc == Len(heap.lists) + heap.nv + nfle

ArgTypeLists == {<<>>, <<jax_float, jax_bool>>}

Init ==
  /\ heap = EmptyHeap
  /\ cur = top_level_emitter(0)
  /\ stack = <<>>
  /\ exc = ""
  /\ ret = NoCell
  /\ nfle = 0
  /\ run = <<>>

\* trace_to_jaxpr, up to the call of f: a fresh builder becomes current
TraceEnter(tys) ==
  /\ InHostCode
  /\ Alloc + 1 + Len(tys) <= MaxAlloc
  /\ heap' = BuilderEmitter_init(heap, tys, EnclosingBuilder)
  /\ stack' = Append(stack, Frame("trace", set_current_emitter_enter(cur), NewestBuilder(heap'), NoCell, <<>>))
  /\ cur' = BuilderEmitter(NewestBuilder(heap'))
  /\ ret' = NoCell
  /\ UNCHANGED <<exc, nfle, run>>

\* cond(p, then_fun, else_fun), up to the call of then_fun
CondEnter(p) ==
  /\ InHostCode
  /\ Alloc + 2 <= MaxAlloc
  /\ heap' = BuilderEmitter_init(heap, <<>>, EnclosingBuilder)
  /\ stack' = stack \o <<Frame("cond", cur, 0, p, <<>>),
                         Frame("trace", set_current_emitter_enter(cur), NewestBuilder(heap'), NoCell, <<>>)>>
  /\ cur' = BuilderEmitter(NewestBuilder(heap'))
  /\ ret' = NoCell
  /\ UNCHANGED <<exc, nfle, run>>

\* cond, between the two trace_to_jaxpr calls: up to the call of else_fun
CondElse ==
  /\ exc = "" /\ stack # <<>> /\ Top.kind = "cond" /\ Len(Top.funs) = 1
  /\ heap' = BuilderEmitter_init(heap, <<>>, EnclosingBuilder)
  /\ stack' = Append(stack, Frame("trace", set_current_emitter_enter(cur), NewestBuilder(heap'), NoCell, <<>>))
  /\ cur' = BuilderEmitter(NewestBuilder(heap'))
  /\ ret' = NoCell
  /\ UNCHANGED <<exc, nfle, run>>

\* cond, after both branches: emit_primitive(Cond(), (p,), (then, else))
CondEmit ==
  /\ exc = "" /\ stack # <<>> /\ Top.kind = "cond" /\ Len(Top.funs) = 2
  /\ LET r == emit_primitive(cur, heap, Cond, <<Top.p>>, Top.funs)
     IN /\ heap' = ClearLog(r.H)
        /\ exc' = r.err
        /\ ret' = r.out
  /\ stack' = Pop
  /\ UNCHANGED <<cur, nfle, run>>

\* f returns result: canonicalize_pyval, build, and the block is left
Return(result) ==
  /\ exc = "" /\ stack # <<>> /\ Top.kind = "trace"
  /\ LET c == canonicalize_pyval(result)
         r == build(heap, Top.b, c.out)
     IN IF c.err # "" \/ r.err # ""
        THEN /\ exc' = "TypeError"
             /\ UNCHANGED <<heap, cur, stack, ret>>
        ELSE /\ heap' = r.H
             /\ cur' = set_current_emitter_exit(Top.prev, cur, FALSE)
             /\ exc' = ""
             /\ ret' = NoCell
             /\ stack' = IF Len(stack) > 1 /\ stack[Len(stack) - 1].kind = "cond"
                         THEN [Pop EXCEPT ![Len(stack) - 1].funs = Append(@, r.out)]
                         ELSE Pop
  /\ UNCHANGED <<nfle, run>>

\* with set_current_emitter(top_level_emitter()): entering
WithEnter ==
  /\ InHostCode
  /\ Alloc + 1 <= MaxAlloc
  /\ nfle' = nfle + 1
  /\ stack' = Append(stack, Frame("with", set_current_emitter_enter(cur), 0, NoCell, <<>>))
  /\ cur' = top_level_emitter(nfle')
  /\ ret' = NoCell
  /\ UNCHANGED <<heap, exc, run>>

\* ... and leaving it normally
WithExit ==
  /\ exc = "" /\ stack # <<>> /\ Top.kind = "with"
  /\ cur' = set_current_emitter_exit(Top.prev, cur, FALSE)
  /\ stack' = Pop
  /\ ret' = NoCell
  /\ UNCHANGED <<heap, exc, nfle, run>>

\* a leaf helper of ops.py: emit_primitive(p, args)
Emit(p, args) ==
  /\ InHostCode
  /\ Alloc + 1 <= MaxAlloc
  /\ LET r == emit_primitive(cur, heap, p, args, <<>>)
     IN /\ heap' = ClearLog(r.H)
        /\ exc' = r.err
        /\ ret' = r.out
  /\ UNCHANGED <<cur, stack, nfle, run>>

\* the host code raises inside a block
Raise ==
  /\ InHostCode /\ stack # <<>>
  /\ exc' = "HostError"
  /\ ret' = NoCell
  /\ UNCHANGED <<heap, cur, stack, nfle, run>>

\* an exception leaves the innermost activation: the finally clause of
\* set_current_emitter runs; cond has no handler
Unwind ==
  /\ exc # "" /\ stack # <<>>
  /\ cur' = IF Top.kind = "cond" THEN cur ELSE set_current_emitter_exit(Top.prev, cur, TRUE)
  /\ stack' = Pop
  /\ ret' = NoCell
  /\ UNCHANGED <<heap, exc, nfle, run>>

\* the exception reaches the top level, where the host goes on
Catch ==
  /\ exc # "" /\ stack = <<>>
  /\ exc' = ""
  /\ ret' = NoCell
  /\ UNCHANGED <<heap, cur, stack, nfle, run>>

Next ==
  \/ \E tys \in ArgTypeLists : TraceEnter(tys)
  \/ \E p \in CondPreds : CondEnter(p)
  \/ CondElse
  \/ CondEmit
  \/ \E x \in ReturnVals : Return(x)
  \/ WithEnter
  \/ WithExit
  \/ \E c \in HostCalls : Emit(c[1], c[2])
  \/ Raise
  \/ Unwind
  \/ Catch

Spec == Init /\ [][Next]_vars

(***************************************************************************)
(* Properties of the host machine.                                         *)
(***************************************************************************)
IsBlock(f) == f.kind \in {"trace", "with"}

Lists == heap.lists

\* the Variables of builder b: its parameters and the binders of its list
ParamIds(H, b) == {H.args[b][i].id : i \in 1..Len(H.args[b])}

BinderIds(H, b) == {H.lists[b][i].binder.id : i \in 1..Len(H.lists[b])}

Owner(H, id) ==
  CHOOSE b \in 0..Len(H.lists) :
    IF b = 0 THEN \A c \in 1..Len(H.lists) : id \notin ParamIds(H, c) \cup BinderIds(H, c)
    ELSE id \in ParamIds(H, b) \cup BinderIds(H, b)

RECURSIVE Ancestors(_, _)
Ancestors(H, b) == IF b = 0 THEN {} ELSE {H.encl[b]} \cup Ancestors(H, H.encl[b])

Built(H) == {H.built[i].j : i \in 1..Len(H.built)}

\* C1: every exit of a block of set_current_emitter (made by the host or by
\* trace_to_jaxpr, nested or not), normal or by an exception, leaves in the
\* slot the emitter that was current just before the matching entry; when
\* the last block is left the slot holds the start-up emitter again.
C1_ScopedRestore ==
  [][(Len(stack') < Len(stack) /\ IsBlock(Top))
       => /\ cur' = Top.before
          /\ (stack' = <<>> => cur' = top_level_emitter(0))]_vars

\* a nested block was left by an exception while the outer one is open: the
\* inner builder has returned no Jaxpr and its block is gone
C1_Witness ==
  /\ exc # "" /\ stack # <<>> /\ Top.kind = "trace"
  /\ cur = BuilderEmitter(Top.b)
  /\ \E b \in 1..Len(Lists) :
       /\ heap.encl[b] = Top.b
       /\ \A j \in Built(heap) : j.eqns # b

\* C2: while a trace is open no equation list that existed when it was
\* entered changes (the nested builder is a new one and takes every
\* equation the branch function emits), and when cond has traced both
\* branches under an outer builder that builder's list is the list it had
\* when cond was called plus the one cond equation owning the two Jaxprs.
FrameListsKept ==
  \A i \in 1..Len(stack) : \A b \in 1..Len(stack[i].snap) : Lists[b] = stack[i].snap[b]

C2_Reentrant ==
  [][/\ FrameListsKept'
     /\ (Len(stack') > Len(stack) /\ cur'.k = "builder")
          => /\ cur'.b \notin 1..Len(Lists)
             /\ Lists'[cur'.b] = <<>>
     /\ (exc = "" /\ Len(stack') < Len(stack) /\ Top.kind = "cond" /\ cur.k = "builder")
          => LET old == Top.snap[cur.b]
                 new == Lists'[cur.b]
             IN IF exc' # "" THEN new = old
                ELSE /\ Len(new) = Len(old) + 1
                     /\ SubSeq(new, 1, Len(old)) = old
                     /\ new[Len(new)].op = Cond
                     /\ new[Len(new)].funargs = Top.funs]_vars

\* cond has finished inside an outer trace, and a branch emitted an equation
C2_Witness ==
  /\ exc = "" /\ cur.k = "builder"
  /\ \E i \in 1..Len(Lists[cur.b]) :
       /\ Lists[cur.b][i].op = Cond
       /\ \E f \in 1..2 : Lists[Lists[cur.b][i].funargs[f].eqns] # <<>>

\* C8: Variables are allocations.  No Variable is bound twice anywhere (so
\* every emit and every builder parameter got a Variable that did not exist
\* before), and in every Jaxpr a builder returned the parameters are
\* pairwise distinct, no two equations share a binder and no binder is a
\* parameter.
Distinct(seq) == \A i \in 1..Len(seq) : \A j \in 1..Len(seq) : i # j => seq[i] # seq[j]

SSA(H, j) ==
  LET ps == [i \in 1..Len(j.binders) |-> j.binders[i].id]
      bs == [i \in 1..Len(H.lists[j.eqns]) |-> H.lists[j.eqns][i].binder.id]
  IN Distinct(ps \o bs)

RECURSIVE AllBound(_, _)
AllBound(H, b) ==
  IF b = 0 THEN <<>>
  ELSE AllBound(H, b - 1) \o [i \in 1..Len(H.args[b]) |-> H.args[b][i].id]
       \o [i \in 1..Len(H.lists[b]) |-> H.lists[b][i].binder.id]

C8_SSA ==
  /\ Distinct(AllBound(heap, Len(Lists)))
  /\ \A j \in Built(heap) : SSA(heap, j)

\* a Jaxpr with two parameters and an equation has been built
C8_Witness ==
  \E j \in Built(heap) : Len(j.binders) = 2 /\ Lists[j.eqns] # <<>>

\* C9 (as claimed): in every Jaxpr a builder returned, a Variable used as an
\* argument or as the result is a parameter, the binder of an earlier
\* equation, or a Variable of a builder that was open around this one.
Legit(H, j, id, i) ==
  \/ id \in {j.binders[k].id : k \in 1..Len(j.binders)}
  \/ id \in {H.lists[j.eqns][k].binder.id : k \in 1..(i - 1)}
  \/ Owner(H, id) \in Ancestors(H, j.eqns)

TopoValid(H, j) ==
  /\ \A i \in 1..Len(H.lists[j.eqns]) : \A a \in 1..Len(H.lists[j.eqns][i].args) :
       LET x == H.lists[j.eqns][i].args[a]
       IN x.k = "var" => Legit(H, j, x.id, i)
  /\ j.result.k = "var" => Legit(H, j, j.result.id, Len(H.lists[j.eqns]) + 1)

C9_TopoValid == \A j \in Built(heap) : TopoValid(heap, j)

\* C11: a call of the host-facing emit_primitive made while a builder is the
\* current emitter that raises TypeError (an argument has no canonicalizer)
\* or AssertionError (the result-type rule rejects the argument types)
\* appends no equation to any builder, allocates no Variable and leaves the
\* current-emitter slot as it was.
C11_FailedEmitNoEffect ==
  [][(exc = "" /\ cur.k = "builder" /\ exc' \in {"TypeError", "AssertionError"})
       => (/\ heap'.lists = heap.lists
           /\ heap'.args = heap.args
           /\ heap'.nv = heap.nv
           /\ cur' = cur)]_vars

\* a builder that holds an equation is current, and a call of sin on a str
\* has just raised TypeError
C11_Witness ==
  /\ exc = "TypeError"
  /\ cur.k = "builder"
  /\ stack # <<>>
  /\ Len(heap.lists[cur.b]) >= 1

(***************************************************************************)
(* The explicit-emitter interface of core.py: code that holds a            *)
(* BuilderEmitter itself, as an OpStream given to materialize_jaxpr does,  *)
(* and calls its methods, apply_jaxpr and lower_jaxpr in any order.        *)
(***************************************************************************)
Builders == 1..Len(heap.lists)

\* what such code can pass: an Array and every tracer made so far
ExplicitArgs == {Array("float32", 1)} \cup {BuilderTracer(v, v.ty) : v \in AllVars(heap)}

\* BuilderEmitter(arg_types), as materialize_jaxpr constructs it
NewBuilder(tys) ==
  /\ Alloc + 1 + Len(tys) <= MaxAlloc
  /\ heap' = BuilderEmitter_init(heap, tys, 0)
  /\ exc' = ""
  /\ ret' = NoCell
  /\ UNCHANGED <<cur, stack, nfle, run>>

\* builder.emit_primitive(Sin(), x.ty, [x], [])
BuilderEmit(b, x) ==
  /\ Alloc + 1 <= MaxAlloc
  /\ LET r == emit(BuilderEmitter(b), heap, Sin, x.ty, <<x>>, <<>>)
     IN /\ heap' = r.H
        /\ exc' = r.err
        /\ ret' = r.out
  /\ UNCHANGED <<cur, stack, nfle, run>>

\* builder.build(result), as materialize_jaxpr ends
Build(b, result) ==
  /\ Len(heap.built) < MaxAlloc
  /\ LET r == build(heap, b, result)
     IN /\ heap' = r.H
        /\ exc' = r.err
        /\ ret' = NoCell
  /\ UNCHANGED <<cur, stack, nfle, run>>

\* apply_jaxpr(eval_emitter, jaxpr, vals), one value per parameter
Replay(j) ==
  /\ LET r == apply_jaxpr(eval_emitter, heap, j, [i \in 1..Len(j.binders) |-> Array("float32", 1)])
     IN /\ exc' = r.err
        /\ ret' = r.out
  /\ UNCHANGED <<heap, cur, stack, nfle, run>>

\* FrontendLoweringEmitter(eval_emitter).lower_jaxpr(jaxpr)
Lower(j) ==
  /\ Alloc + 1 + Len(j.binders) + Len(heap.lists[j.eqns]) <= MaxAlloc
  /\ LET r == lower_jaxpr(heap, j)
     IN /\ heap' = ClearLog(r.H)
        /\ exc' = r.err
        /\ ret' = NoCell
  /\ UNCHANGED <<cur, stack, nfle, run>>

NextExplicit ==
  \/ \E tys \in ArgTypeLists : NewBuilder(tys)
  \/ \E b \in Builders : \E x \in ExplicitArgs : BuilderEmit(b, x)
  \/ \E b \in Builders : \E x \in ExplicitArgs : Build(b, x)
  \/ \E j \in Built(heap) : Replay(j)
  \/ \E j \in Built(heap) : Lower(j)

SpecExplicit == Init /\ [][NextExplicit]_vars

\* C7 (as claimed): the equation list of every Jaxpr a builder returned is
\* the list it was when build returned it, whatever is done afterwards.
C7_Immutable ==
  \A i \in 1..Len(heap.built) : heap.lists[heap.built[i].j.eqns] = heap.built[i].snap

(***************************************************************************)
(* Host functions as data, for the pipelines of tests.py: a function is    *)
(* run directly, traced, and its Program replayed and lowered.             *)
(*                                                                         *)
(* A function has parameters and a body of statements, each binding one    *)
(* more local (an unpacking binds two); it returns its last local, or a    *)
(* constant when it has none.  A statement is a call of sin or add, a      *)
(* two-way unpacking `x, y = v`, or a call of cond with two lambdas, which *)
(* see the locals of the function they are written in.                     *)
(***************************************************************************)
Const(c) == [k |-> "const", c |-> c, i |-> 0]

Local(i) == [k |-> "local", c |-> NoCell, i |-> i]

\* the value of a name or literal of the host function
resolve(ref, env) == IF ref.k = "const" THEN ref.c ELSE env[ref.i]

Branch(body, result) == [body |-> body, result |-> result]

NoBranch == Branch(<<>>, Const(NoCell))

LeafStmt(op, args) == [k |-> "leaf", op |-> op, args |-> args, then |-> NoBranch, else |-> NoBranch]

UnpackStmt(x) == [k |-> "unpack", op |-> ProjectTuple(0), args |-> <<x>>, then |-> NoBranch, else |-> NoBranch]

CondStmt(p, t, e) == [k |-> "cond", op |-> Cond, args |-> <<p>>, then |-> t, else |-> e]

Fun(params, body, result) == [params |-> params, body |-> body, result |-> result]

RECURSIVE run_body(_, _, _, _, _)
RECURSIVE seq_iter(_, _, _, _, _)

\* Tracer.__getitem__ / TupleType._getitem: v[i] for a tracer v
getitem(E, H, v, i) ==
  IF v.ty.k = "tup" THEN emit_primitive(E, H, ProjectTuple(i), <<v>>, <<>>)
  ELSE Fail("AttributeError", H)

\* one step of Python's iteration over an object that has only __getitem__:
\* IndexError ends it; a two-way unpacking wants exactly two items
seq_iter_step(E, v, i, acc, r) ==
  IF r.err = "IndexError"
  THEN (IF Len(acc) = 2 THEN Ok(r.H, acc) ELSE Fail("ValueError", r.H))
  ELSE IF r.err # "" THEN r
  ELSE IF Len(acc) = 2 THEN Fail("ValueError", r.H)
  ELSE seq_iter(E, r.H, v, i + 1, Append(acc, r.out))

seq_iter(E, H, v, i, acc) == seq_iter_step(E, v, i, acc, getitem(E, H, v, i))

\* x, y = v
unpack(E, H, v) ==
  IF v.k = "py" /\ v.py = "tuple"
  THEN (IF Len(v.elts) = 2 THEN Ok(H, v.elts) ELSE Fail("ValueError", H))
  ELSE IF IsTracer(v) THEN seq_iter(E, H, v, 0, <<>>)
  ELSE Fail("TypeError", H)

\* the part of trace_to_jaxpr inside the with block, b being the new builder
\* and env the locals the function starts with
trace_block(Hb, b, body, result, env) ==
  Bind(run_body(BuilderEmitter(b), Hb, body, 1, env), LAMBDA r :
    Bind(In(r.H, canonicalize_pyval(resolve(result, r.out))), LAMBDA c :
      build(c.H, b, c.out)))

\* the builder that is current while E is, 0 if none
BuilderOf(E) == IF E.k = "builder" THEN E.b ELSE 0

\* trace_to_jaxpr(lambda, ()) for a lambda written where the locals are env
trace_branch(E, H, br, env) ==
  trace_block(BuilderEmitter_init(H, <<>>, BuilderOf(E)), Len(H.lists) + 1, br.body, br.result, env)

\* ops.cond(p, then_fun, else_fun) with the current emitter E
cond(E, H, p, then_fun, else_fun, env) ==
  Bind(trace_branch(E, H, then_fun, env), LAMBDA then_jaxpr :
    Bind(trace_branch(E, then_jaxpr.H, else_fun, env), LAMBDA else_jaxpr :
      emit_primitive(E, else_jaxpr.H, Cond, <<p>>, <<then_jaxpr.out, else_jaxpr.out>>)))

\* one statement with the current emitter E: the locals it binds
run_stmt(E, H, s, env) ==
  IF s.k = "leaf"
  THEN Bind(emit_primitive(E, H, s.op, [j \in 1..Len(s.args) |-> resolve(s.args[j], env)], <<>>),
            LAMBDA r : Ok(r.H, <<r.out>>))
  ELSE IF s.k = "unpack" THEN unpack(E, H, resolve(s.args[1], env))
  ELSE Bind(cond(E, H, resolve(s.args[1], env), s.then, s.else, env),
            LAMBDA r : Ok(r.H, <<r.out>>))

\* the statements body[i..] with the current emitter E; returns the locals
run_body(E, H, body, i, env) ==
  IF i > Len(body) THEN Ok(H, env)
  ELSE Bind(run_stmt(E, H, body[i], env), LAMBDA r :
         run_body(E, r.H, body, i + 1, env \o r.out))

\* f(*args) called by the host while E is the current emitter
call_fun(E, H, f, args) ==
  Bind(run_body(E, H, f.body, 1, args), LAMBDA r : Ok(r.H, resolve(f.result, r.out)))

\* trace_to_jaxpr(f, arg_types), called at top level
trace_to_jaxpr(H, f, arg_types) ==
  LET Hb == BuilderEmitter_init(H, arg_types, 0)
      b  == Len(H.lists) + 1
  IN trace_block(Hb, b, f.body, f.result, Hb.args[b])

(***************************************************************************)
(* The host functions the pipelines are run on.                            *)
(***************************************************************************)
HostNumbers == {PyVal("float", 1), PyVal("int", 1)}

\* what a statement can name when n locals are bound
Refs(n) == {Const(c) : c \in HostNumbers} \cup {Local(i) : i \in 1..n}

SinStmts(n) == {LeafStmt(Sin, <<r>>) : r \in Refs(n)}

AddStmts(n) == {LeafStmt(Add, <<r, s>>) : r \in Refs(n), s \in Refs(n)}

RECURSIVE BranchBodies(_, _)
BranchBodies(n, k) ==
  IF k = 0 THEN {<<>>}
  ELSE {<<>>} \cup UNION {{<<s>> \o rest : rest \in BranchBodies(n + 1, k - 1)} : s \in SinStmts(n)}

\* lambda: r   and   lambda: sin(...sin(r))
Branches(n) ==
  {Branch(<<>>, r) : r \in Refs(n)}
  \cup {Branch(b, Local(n + Len(b))) : b \in BranchBodies(n, MaxBranch) \ {<<>>}}

CondStmts(n) ==
  {CondStmt(Const(PyVal("bool", v)), t, e) : v \in {0, 1}, t \in Branches(n), e \in Branches(n)}

UnpackStmts(n) == {UnpackStmt(Local(i)) : i \in {j \in {n} : j > 0}}

Stmts(n) == SinStmts(n) \cup AddStmts(n) \cup UnpackStmts(n) \cup CondStmts(n)

\* the locals a statement binds
Binds(s) == IF s.k = "unpack" THEN 2 ELSE 1

\* what a function with n locals and no statement returns, and what one
\* with statements does
Returns(n, body) == IF n = 0 THEN {Const(c) : c \in HostNumbers} ELSE {Local(n)}

ParamLists == {<<>>, <<jax_float>>, <<TupleType(<<jax_float, jax_float>>)>>}

\* the argument the host passes for a parameter of type ty when it calls
\* the function directly, and the one it passes to apply_jaxpr
HostInput(ty) ==
  IF ty.k = "tup" THEN PyTuple(<<PyVal("float", 1), PyVal("float", 2)>>) ELSE PyVal("float", 2)

ReplayInput(ty) ==
  IF ty.k = "tup" THEN PyTuple(<<Array("float32", 1), Array("float32", 2)>>) ELSE Array("float32", 2)

(***************************************************************************)
(* The pipelines of tests.py on one host function: the host writes the     *)
(* function, calls it directly (the current emitter is the top-level one), *)
(* traces it, replays the Program under the EvalEmitter, lowers it and     *)
(* replays the lowered Program, and replays the Program through a          *)
(* FrontendLoweringEmitter over the EvalEmitter.  run holds the function,  *)
(* how far the host is, and what each step returned or raised.             *)
(***************************************************************************)
Outcome(r) == [err |-> r.err, out |-> r.out]

NoOutcome == [err |-> "none", out |-> NoCell]

RunInit(ps) ==
  [stage |-> "write", fn |-> Fun(ps, <<>>, Const(NoCell)), nlocals |-> Len(ps),
   direct |-> NoOutcome, traced |-> NoOutcome, replay |-> NoOutcome,
   lowered |-> NoOutcome, fle |-> NoOutcome]

InitRun ==
  /\ heap = EmptyHeap
  /\ cur = top_level_emitter(0)
  /\ stack = <<>>
  /\ exc = ""
  /\ ret = NoCell
  /\ nfle = 0
  /\ run \in {RunInit(ps) : ps \in ParamLists}

\* the host writes one more statement of the function; a call of cond is
\* its last one (return cond(...), as in fun1)
WriteStmt(s) ==
  /\ run.stage = "write"
  /\ Len(run.fn.body) < MaxBody
  /\ IF run.fn.body = <<>> THEN TRUE ELSE run.fn.body[Len(run.fn.body)].k # "cond"
  /\ run' = [run EXCEPT !.fn.body = Append(@, s), !.nlocals = @ + Binds(s)]
  /\ UNCHANGED <<heap, cur, stack, exc, ret, nfle>>

\* ... and its return statement
WriteReturn(r) ==
  /\ run.stage = "write"
  /\ run' = [run EXCEPT !.fn.result = r, !.stage = "written"]
  /\ UNCHANGED <<heap, cur, stack, exc, ret, nfle>>

\* print(f(...)): the direct call
Direct ==
  /\ run.stage = "written"
  /\ LET r == call_fun(cur, heap, run.fn, [i \in 1..Len(run.fn.params) |-> HostInput(run.fn.params[i])])
     IN /\ heap' = ClearLog(r.H)
        /\ run' = [run EXCEPT !.direct = Outcome(r), !.stage = "called"]
  /\ UNCHANGED <<cur, stack, exc, ret, nfle>>

\* trace_to_jaxpr(f, arg_types)
Trace ==
  /\ run.stage = "called"
  /\ LET r == trace_to_jaxpr(heap, run.fn, run.fn.params)
     IN /\ heap' = r.H
        /\ run' = [run EXCEPT !.traced = Outcome(r), !.stage = "traced"]
  /\ UNCHANGED <<cur, stack, exc, ret, nfle>>

\* the values given to apply_jaxpr, one per parameter
ReplayVals == [i \in 1..Len(run.fn.params) |-> ReplayInput(run.fn.params[i])]

\* apply_jaxpr(eval_emitter, jaxpr, vals)
ReplayEval ==
  /\ run.stage = "traced" /\ run.traced.err = ""
  /\ LET r == apply_jaxpr(eval_emitter, heap, run.traced.out, ReplayVals)
     IN /\ heap' = ClearLog(r.H)
        /\ run' = [run EXCEPT !.replay = Outcome(r), !.stage = "replayed"]
  /\ UNCHANGED <<cur, stack, exc, ret, nfle>>

\* apply_jaxpr(eval_emitter, top_level_emitter().lower_jaxpr(jaxpr), vals)
lower_and_replay(H, jaxpr, vals) ==
  Bind(lower_jaxpr(H, jaxpr), LAMBDA low : apply_jaxpr(eval_emitter, low.H, low.out, vals))

LowerReplay ==
  /\ run.stage = "replayed"
  /\ LET r == lower_and_replay(heap, run.traced.out, ReplayVals)
     IN /\ heap' = ClearLog(r.H)
        /\ run' = [run EXCEPT !.lowered = Outcome(r), !.stage = "lowered"]
  /\ UNCHANGED <<cur, stack, exc, ret, nfle>>

\* apply_jaxpr(top_level_emitter(), jaxpr, vals)
ReplayLowering ==
  /\ run.stage = "lowered"
  /\ LET r == apply_jaxpr(top_level_emitter(0), heap, run.traced.out, ReplayVals)
     IN /\ heap' = ClearLog(r.H)
        /\ run' = [run EXCEPT !.fle = Outcome(r), !.stage = "done"]
  /\ UNCHANGED <<cur, stack, exc, ret, nfle>>

NextRun ==
  \/ \E s \in Stmts(run.nlocals) : WriteStmt(s)
  \/ \E r \in Returns(run.nlocals, run.fn.body) : WriteReturn(r)
  \/ Direct
  \/ Trace
  \/ ReplayEval
  \/ LowerReplay
  \/ ReplayLowering

SpecRun == InitRun /\ [][NextRun]_vars

\* a returned host value as the Array it denotes (a tuple: element-wise)
Value(x) ==
  IF x.k = "py" /\ x.py = "tuple"
  THEN [x EXCEPT !.elts = [i \in 1..Len(x.elts) |->
                             IF x.elts[i].k = "py" THEN canonicalize_pyval(x.elts[i]).out ELSE x.elts[i]]]
  ELSE IF x.k = "py" /\ canonicalize_pyval(x).err = "" THEN canonicalize_pyval(x).out
  ELSE x

\* two computations agree: if one returns a value, the other returns the same
Agree(a, b) ==
  (a.err = "" \/ b.err = "") => (a.err = "" /\ b.err = "" /\ Value(a.out) = Value(b.out))

\* what tracing and then replaying the Program gives
TracedReplay == IF run.traced.err # "" THEN run.traced ELSE run.replay

LeafOnly(f) == \A i \in 1..Len(f.body) : f.body[i].k = "leaf"

\* C3 (as claimed): for a function built from leaf operations, calling it
\* directly returns the same value as tracing it and replaying the Program
\* under the EvalEmitter on the same inputs.
C3_TraceEvalEquivalent ==
  (run # <<>> /\ run.stage \in {"replayed", "lowered", "done"} /\ LeafOnly(run.fn))
    => Agree(run.direct, TracedReplay)

\* C5 (as claimed): the lowered Program, replayed under the EvalEmitter,
\* returns what the Program itself returns there, and so does the Program
\* replayed through a FrontendLoweringEmitter over the EvalEmitter.
C5_LoweringCorrect ==
  (run # <<>> /\ run.stage = "done")
    => (Agree(run.replay, run.lowered) /\ Agree(run.replay, run.fle))

\* C6 (as claimed): replaying a traced Program with one value per parameter,
\* under the EvalEmitter or a FrontendLoweringEmitter, never looks up a
\* Variable that the replay environment does not hold.
C6_NoMissingBinding ==
  (run # <<>> /\ run.stage = "done")
    => (run.replay.err # "KeyError" /\ run.fle.err # "KeyError")

\* tests.py fun2: x, y = xy; return add(x, y)
fun2 ==
  Fun(<<TupleType(<<jax_float, jax_float>>)>>,
      <<UnpackStmt(Local(1)), LeafStmt(Add, <<Local(2), Local(3)>>)>>, Local(4))

\* C10 (as claimed): the Program traced from fun2 has projection equations
\* typed by the element types of the tuple type, and replayed on a tuple
\* it returns the sum of the two components.
C10_TupleProjection ==
  (run # <<>> /\ run.stage \in {"replayed", "lowered", "done"} /\ run.fn = fun2)
    => /\ \A i \in 1..Len(heap.lists[run.traced.out.eqns]) :
            LET eqn == heap.lists[run.traced.out.eqns][i]
            IN eqn.op.name = "proj" => eqn.binder.ty = run.fn.params[1].elts[eqn.op.i + 1]
       /\ run.replay.err = ""
       /\ run.replay.out = Array("float32", ReplayVals[1].elts[1].val + ReplayVals[1].elts[2].val)

(***************************************************************************)
(* Evaluating a cond equation.  The host has traced                        *)
(*   lambda x: cond(p, then_fun, else_fun)                                 *)
(* for a boolean constant p and two lambdas, so that the heap holds a cond *)
(* equation over two zero-parameter Programs; the EvalEmitter is then      *)
(* given that equation, as apply_jaxpr gives it.  run keeps the equation,  *)
(* what the EvalEmitter replayed (heap.calls, heap.exec) and the result.   *)
(***************************************************************************)
CondFun(v, t, e) ==
  Fun(<<jax_float>>, <<CondStmt(Const(PyVal("bool", v)), t, e)>>, Local(2))

InitCond ==
  /\ cur = top_level_emitter(0)
  /\ stack = <<>>
  /\ exc = ""
  /\ ret = NoCell
  /\ nfle = 0
  /\ \E v \in {0, 1} : \E t \in Branches(1) : \E e \in Branches(1) :
       /\ heap = trace_to_jaxpr(EmptyHeap, CondFun(v, t, e), <<jax_float>>).H
       /\ run = [done |-> FALSE, fn |-> CondFun(v, t, e), eqn |-> <<>>,
                 calls |-> <<>>, exec |-> <<>>, res |-> NoOutcome]

\* eval_emitter.emit_primitive(eqn.op, eqn.binder.ty, args, eqn.funargs)
\* for the equation heap.lists[l][i], whose arguments are literals
EvalCond(l, i) ==
  /\ ~run.done
  /\ heap.lists[l][i].op = Cond
  /\ \A a \in 1..Len(heap.lists[l][i].args) : IsJaxVal(heap.lists[l][i].args[a])
  /\ LET eqn == heap.lists[l][i]
         r   == emit(eval_emitter, heap, eqn.op, eqn.binder.ty, eqn.args, eqn.funargs)
     IN /\ run' = [run EXCEPT !.done = TRUE, !.eqn = eqn, !.calls = r.H.calls,
                              !.exec = r.H.exec, !.res = Outcome(r)]
        /\ heap' = ClearLog(r.H)
  /\ UNCHANGED <<cur, stack, exc, ret, nfle>>

NextCond == \E l \in 1..Len(heap.lists) : \E i \in 1..Len(heap.lists[l]) : EvalCond(l, i)

SpecCond == InitCond /\ [][NextCond]_vars

\* the binders of the equations of a Program, in order
EqnIds(j) == [k \in 1..Len(heap.lists[j.eqns]) |-> heap.lists[j.eqns][k].binder.id]

Chosen(eqn) == IF Truthy(eqn.args[1].val) THEN eqn.funargs[1] ELSE eqn.funargs[2]

NotChosen(eqn) == IF Truthy(eqn.args[1].val) THEN eqn.funargs[2] ELSE eqn.funargs[1]

\* C4: evaluating a cond equation replays exactly one sub-program, the
\* then-branch if the predicate value is true and the else-branch if not;
\* the equations executed are those of that sub-program, in order (all of
\* them unless one raises), none of the other sub-program is executed, and
\* the result is the result of replaying the chosen sub-program.
C4_BranchExclusive ==
  run.done =>
    /\ run.calls = <<Chosen(run.eqn)>>
    /\ Len(run.exec) <= Len(EqnIds(Chosen(run.eqn)))
    /\ run.exec = SubSeq(EqnIds(Chosen(run.eqn)), 1, Len(run.exec))
    /\ run.res.err = "" => run.exec = EqnIds(Chosen(run.eqn))
    /\ \A k \in 1..Len(run.exec) : \A m \in 1..Len(EqnIds(NotChosen(run.eqn))) :
         run.exec[k] # EqnIds(NotChosen(run.eqn))[m]
    /\ run.res = Outcome(apply_jaxpr(eval_emitter, heap, Chosen(run.eqn), <<>>))

\* a cond equation with a true predicate was evaluated: the then-branch
\* ran its equation and the else-branch has one that did not run
C4_Witness ==
  /\ run.done
  /\ Truthy(run.eqn.args[1].val)
  /\ run.res.err = ""
  /\ Len(run.exec) >= 1
  /\ Len(EqnIds(run.eqn.funargs[2])) >= 1
====
